---- MODULE Spec2Model ----
(***************************************************************************)
(* Parallel line counter of src/multi_threaded: a file is split into byte  *)
(* ranges, count_lines_in_chunk counts each range, and the dispatcher      *)
(* (read_lines_threaded / read_lines_multiprocess, line-for-line the same  *)
(* apart from the pool they use) sums the partial counts.                  *)
(*                                                                         *)
(* A file is a sequence of bytes; a byte is a one-character string.  File  *)
(* offsets are 0-based as in the code, sequence indices are 1-based.       *)
(***************************************************************************)
EXTENDS Integers, Sequences, FiniteSets

\* ----------------------------------------------------------------- bounds

\* Longest file over the two-letter alphabet.
MaxLen == 4

\* Largest worker count whose workers are interleaved step by step (Spec).
MaxWorkers == 3

\* Largest worker count of the contiguous range 1..MaxDispatch tried by the
\* whole-call specification (SpecFn), beside 7 and 64.
MaxDispatch == 5

\* ------------------------------------------------------------------ bytes

\* b'\n', the only terminator the counter looks for.
NL == "\n"

Bytes == {"x", NL}

RECURSIVE SeqsUpTo(_, _)
SeqsUpTo(S, k) ==
    IF k = 0 THEN {<<>>}
    ELSE LET shorter == SeqsUpTo(S, k - 1)
         IN  shorter \cup {Append(s, b) : s \in {t \in shorter : Len(t) = k - 1}, b \in S}

\* The files tried: every file of at most MaxLen bytes over {non-terminator,
\* terminator}, and the two literal files "abc" and "abc\n".
Files == SeqsUpTo(Bytes, MaxLen) \cup {<<"a", "b", "c">>, <<"a", "b", "c", NL>>}

\* Worker counts a caller may pass: valid ones and n < 1.
InvalidCounts == {-2, -1, 0}
InterleavedCounts == InvalidCounts \cup (1..MaxWorkers)
DispatchCounts == InvalidCounts \cup (1..MaxDispatch) \cup {7, 64}

\* Byte offsets a direct caller of count_lines_in_chunk may pass, valid or not.
Offsets == 0..(MaxLen + 1)

\* ---------------------------------------------------- binary file object

Min(a, b) == IF a <= b THEN a ELSE b

\* f.read(k) with the handle at offset pos: at most k bytes, fewer at EOF,
\* none at or beyond EOF.
read(f, pos, k) == SubSeq(f, pos + 1, Min(pos + k, Len(f)))

\* f.readline() with the handle at offset pos: up to and including the next
\* terminator, or up to EOF when there is none; empty at or beyond EOF.
readline(f, pos) ==
    LET nls == {p \in (pos + 1)..Len(f) : f[p] = NL}
    IN  IF nls = {} THEN SubSeq(f, pos + 1, Len(f))
        ELSE SubSeq(f, pos + 1, CHOOSE p \in nls : \A q \in nls : p <= q)

\* bytes.count(b): occurrences of byte b in data.
count(data, b) == Cardinality({k \in 1..Len(data) : data[k] = b})

\* ------------------------------------------------- count_lines_in_chunk

\* Mutant of SkippedLineCounted: the skipped line is counted wherever it ends.
SkippedLineCountedAnywhere(skipped_line, tell, end) == skipped_line # <<>>

\* "if skipped_line and f.tell() < end": the straddling line is counted here.
SkippedLineCounted(skipped_line, tell, end) == skipped_line # <<>> /\ tell < end

count_lines_in_chunk(f, start, end) ==
    LET prev_byte == read(f, start - 1, 1)
        mid_line == start # 0 /\ prev_byte # <<NL>>
        skipped_line == IF mid_line THEN readline(f, start) ELSE <<>>
        tell == start + Len(skipped_line)
        counted == IF mid_line /\ SkippedLineCounted(skipped_line, tell, end)
                   THEN 1 ELSE 0
        bytes_to_read == end - tell
        chunk_data == IF bytes_to_read > 0 THEN read(f, tell, bytes_to_read) ELSE <<>>
    IN  counted + count(chunk_data, NL)

\* ------------------------------------------------------ read_lines_basic

\* "for line in f: line_count += 1": one per readline() until it returns
\* nothing, so a final unterminated line counts.
RECURSIVE lines_from(_, _)
lines_from(f, pos) ==
    LET line == readline(f, pos)
    IN  IF line = <<>> THEN 0 ELSE 1 + lines_from(f, pos + Len(line))

read_lines_basic(f) == lines_from(f, 0)

\* ------------------------------------------------------------ dispatcher

\* Python's a // b for a >= 0 and b # 0 (floor division).
FloorDiv(a, b) == IF b > 0 THEN a \div b ELSE -((a + (-b) - 1) \div (-b))

\* Mutant of ChunkEnd: the last range ends like the others.
ChunkEndUniform(i, num_threads, file_size, chunk_size) == (i + 1) * chunk_size

\* "end = file_size if i == num_threads - 1 else (i + 1) * chunk_size".
ChunkEnd(i, num_threads, file_size, chunk_size) ==
    IF i = num_threads - 1 THEN file_size ELSE (i + 1) * chunk_size

\* The chunk list of "for i in range(num_threads)"; empty when num_threads <= 0.
MakeChunks(file_size, chunk_size, num_threads) ==
    IF num_threads <= 0 THEN <<>> ELSE
    [k \in 1..num_threads |->
        [start |-> (k - 1) * chunk_size,
         end |-> ChunkEnd(k - 1, num_threads, file_size, chunk_size)]]

RECURSIVE sum(_)
sum(s) == IF s = <<>> THEN 0 ELSE Head(s) + sum(Tail(s))

\* Mutant of PoolRejects: a pool that takes any worker count.
PoolAcceptsAny(num_threads) == FALSE

\* ThreadPoolExecutor(max_workers=n) / Pool(processes=n) raise ValueError
\* for n <= 0, before any task is submitted.
PoolRejects(num_threads) == num_threads <= 0

\* Mutant of AllFinished: the results are read while tasks are still queued
\* or running.
NoneRunning(status) == \A i \in DOMAIN status : status[i] # "running"

\* Leaving the "with" block (shutdown(wait=True)) and pool.map both block
\* until every task has finished, with a value or with an exception.
AllFinished(status) == \A i \in DOMAIN status : status[i] \in {"done", "failed"}

\* Mutant of AnyFailed: a worker's exception is swallowed.
NeverFailed(status) == FALSE

\* Reading the results re-raises the exception of a task that failed.
AnyFailed(status) == \E i \in DOMAIN status : status[i] = "failed"

\* The partial count of every chunk, in chunk order.
map_chunks(f, chunks) ==
    [k \in DOMAIN chunks |-> count_lines_in_chunk(f, chunks[k].start, chunks[k].end)]

\* read_lines_threaded / read_lines_multiprocess as one call on a readable
\* file: what it raises, or the chunks, the partial counts and their sum.
read_lines_threaded(f, num_threads) ==
    IF num_threads = 0
    THEN [error |-> "ZeroDivisionError", chunks |-> <<>>, results |-> <<>>,
          result |-> <<>>]
    ELSE LET file_size == Len(f)
             chunk_size == FloorDiv(file_size, num_threads)
             chunks == MakeChunks(file_size, chunk_size, num_threads)
             results == map_chunks(f, chunks)
         IN  IF PoolRejects(num_threads)
             THEN [error |-> "ValueError", chunks |-> chunks, results |-> <<>>,
                   result |-> <<>>]
             ELSE [error |-> "", chunks |-> chunks, results |-> results,
                   result |-> <<sum(results)>>]

\* ------------------------------------------------------------------ state

VARIABLES
    file,         \* the file's bytes; never written
    num_threads,  \* the worker count the caller passes
    pc,           \* "idle", "partitioned", "running", "returned", "raised", "counted"
    chunks,       \* the dispatcher's chunk list, [start, end] records
    status,       \* per task: "queued", "running", "done", "failed"
    started,      \* per task: how many times a worker picked it up
    results,      \* per task: its partial count (0 until it is done)
    args,         \* <<start, end>> of a direct count_lines_in_chunk call, or <<>>
    result,       \* <<v>> once the call returned v, <<>> otherwise
    error         \* the exception the call raised, "" if none

vars == <<file, num_threads, pc, chunks, status, started, results, args, result, error>>

Blank ==
    /\ pc = "idle"
    /\ chunks = <<>>
    /\ status = <<>>
    /\ started = <<>>
    /\ results = <<>>
    /\ args = <<>>
    /\ result = <<>>
    /\ error = ""

\* --------------------------------------- Spec: the dispatcher, step by step

Init ==
    /\ file \in Files
    /\ num_threads \in InterleavedCounts
    /\ Blank

\* os.path.getsize raises: the file is missing or unreadable.
StatFails ==
    /\ pc = "idle"
    /\ pc' = "raised"
    /\ error' = "OSError"
    /\ UNCHANGED <<file, num_threads, chunks, status, started, results, args, result>>

\* file_size, chunk_size and the chunk list; "file_size // 0" raises.
Partition ==
    /\ pc = "idle"
    /\ \/ /\ num_threads = 0
          /\ pc' = "raised"
          /\ error' = "ZeroDivisionError"
          /\ UNCHANGED chunks
       \/ /\ num_threads # 0
          /\ LET file_size == Len(file)
                 chunk_size == FloorDiv(file_size, num_threads)
             IN  chunks' = MakeChunks(file_size, chunk_size, num_threads)
          /\ pc' = "partitioned"
          /\ UNCHANGED error
    /\ UNCHANGED <<file, num_threads, status, started, results, args, result>>

\* The pool is created and map() submits one task per chunk.
StartPool ==
    /\ pc = "partitioned"
    /\ \/ /\ PoolRejects(num_threads)
          /\ pc' = "raised"
          /\ error' = "ValueError"
          /\ UNCHANGED <<status, started, results>>
       \/ /\ ~PoolRejects(num_threads)
          /\ status' = [k \in DOMAIN chunks |-> "queued"]
          /\ started' = [k \in DOMAIN chunks |-> 0]
          /\ results' = [k \in DOMAIN chunks |-> 0]
          /\ pc' = "running"
          /\ UNCHANGED error
    /\ UNCHANGED <<file, num_threads, chunks, args, result>>

\* A free worker takes a queued task.
WorkerStart ==
    /\ pc = "running"
    /\ \E i \in DOMAIN status :
          /\ status[i] = "queued"
          /\ status' = [status EXCEPT ![i] = "running"]
          /\ started' = [started EXCEPT ![i] = @ + 1]
    /\ UNCHANGED <<file, num_threads, pc, chunks, results, args, result, error>>

\* The task's count_lines_in_chunk returns; the file is immutable and the
\* handle is the worker's own, so the call is one step.
WorkerFinish ==
    /\ pc = "running"
    /\ \E i \in DOMAIN status :
          /\ status[i] = "running"
          /\ status' = [status EXCEPT ![i] = "done"]
          /\ results' = [results EXCEPT
                ![i] = count_lines_in_chunk(file, chunks[i].start, chunks[i].end)]
    /\ UNCHANGED <<file, num_threads, pc, chunks, started, args, result, error>>

\* The task's open/seek/read raises an I/O error.
WorkerFail ==
    /\ pc = "running"
    /\ \E i \in DOMAIN status :
          /\ status[i] = "running"
          /\ status' = [status EXCEPT ![i] = "failed"]
    /\ UNCHANGED <<file, num_threads, pc, chunks, started, results, args, result, error>>

\* All tasks are awaited, then "return sum(results)".
Reduce ==
    /\ pc = "running"
    /\ AllFinished(status)
    /\ \/ /\ AnyFailed(status)
          /\ pc' = "raised"
          /\ error' = "OSError"
          /\ UNCHANGED result
       \/ /\ ~AnyFailed(status)
          /\ pc' = "returned"
          /\ result' = <<sum(results)>>
          /\ UNCHANGED error
    /\ UNCHANGED <<file, num_threads, chunks, status, started, results, args>>

Next ==
    \/ StatFails
    \/ Partition
    \/ StartPool
    \/ WorkerStart
    \/ WorkerFinish
    \/ WorkerFail
    \/ Reduce

Spec == Init /\ [][Next]_vars

\* ------------------------------ SpecFn: the two functions as whole calls

InitFn ==
    /\ file \in Files
    /\ num_threads \in DispatchCounts
    /\ Blank

\* One call of the dispatcher on a readable file.
Dispatch ==
    /\ pc = "idle"
    /\ LET r == read_lines_threaded(file, num_threads)
       IN  /\ chunks' = r.chunks
           /\ results' = r.results
           /\ status' = [k \in DOMAIN r.results |-> "done"]
           /\ started' = [k \in DOMAIN r.results |-> 1]
           /\ result' = r.result
           /\ error' = r.error
           /\ pc' = IF r.error = "" THEN "returned" ELSE "raised"
    /\ UNCHANGED <<file, num_threads, args>>

\* One direct call of count_lines_in_chunk with any range, valid or not.
CountChunk ==
    /\ pc = "idle"
    /\ \E start \in Offsets, end \in Offsets :
          /\ args' = <<start, end>>
          /\ result' = <<count_lines_in_chunk(file, start, end)>>
    /\ pc' = "counted"
    /\ UNCHANGED <<file, num_threads, chunks, status, started, results, error>>

NextFn ==
    \/ Dispatch
    \/ CountChunk

SpecFn == InitFn /\ [][NextFn]_vars

\* ----------------------------------------------------------------- claims

\* '\n' bytes at the offsets p with start <= p < end.
NewlinesIn(f, start, end) ==
    Cardinality({p \in start..(end - 1) : p < Len(f) /\ f[p + 1] = NL})

\* The worker counts the partition-invariance property names.
InvarianceCounts == {1, 2, 3, 7, 64}

\* C1 (SpecFn): for any file, the dispatcher returns the same total for every
\* worker count in {1, 2, 3, 7, 64}, and that total is the number of '\n'
\* bytes one sequential scan of the whole file finds.
C1_PartitionInvariance ==
    (pc = "returned" /\ num_threads \in InvarianceCounts) =>
        /\ result = <<count(file, NL)>>
        /\ \A m \in InvarianceCounts : read_lines_threaded(file, m).result = result

\* C2 (SpecFn): every chunk of the partition counts exactly the lines whose
\* terminating '\n' lies at an offset p with start <= p < end, the straddling
\* line with its terminator at end - 1 included.
C2_AttributionByTerminator ==
    pc = "returned" =>
        \A k \in DOMAIN chunks :
            results[k] = NewlinesIn(file, chunks[k].start, chunks[k].end)

\* C3 (SpecFn): for the file "abc\n" the dispatcher returns 1 for every
\* worker count n >= 1.
C3_SingleLineTrailingTerminator ==
    (pc = "returned" /\ file = <<"a", "b", "c", NL>>) => result = <<1>>

\* C4 (SpecFn): for the file "abc" (no '\n') the dispatcher returns 1 for
\* every worker count n >= 1, as the line-iterating baseline does.
C4_SingleLineNoTerminator ==
    (pc = "returned" /\ file = <<"a", "b", "c">>) =>
        /\ result = <<1>>
        /\ result = <<read_lines_basic(file)>>

\* C5 (SpecFn): for every file size >= 0 and every n >= 1 the chunk list has
\* exactly n ranges with start <= end, the first starts at 0, each ends where
\* the next starts, and the last ends at the file size.
C5_PartitionerCoverage ==
    pc = "returned" =>
        /\ Len(chunks) = num_threads
        /\ \A k \in 1..Len(chunks) : chunks[k].start <= chunks[k].end
        /\ chunks[1].start = 0
        /\ \A k \in 1..(Len(chunks) - 1) : chunks[k].end = chunks[k + 1].start
        /\ chunks[Len(chunks)].end = Len(file)

\* C5 witness: more workers than bytes, a remainder, and zero-length ranges.
C5_Witness ==
    /\ pc = "returned"
    /\ num_threads > Len(file)
    /\ Len(file) > 1
    /\ \E k \in 1..Len(chunks) : chunks[k].start = chunks[k].end
    /\ chunks[Len(chunks)].end > chunks[Len(chunks)].start

\* C6 (Spec): once a worker's count_lines_in_chunk has failed, the dispatch
\* never returns a total; it cannot stop while still running, and when it
\* ends, it ends raising the error.
C6_FailFast ==
    (\E k \in DOMAIN status : status[k] = "failed") =>
        /\ pc \in {"running", "raised"}
        /\ result = <<>>
        /\ (pc = "running" => ENABLED Next)
        /\ (pc = "raised" =>
              /\ error = "OSError"
              /\ \A k \in DOMAIN status : status[k] \in {"done", "failed"})

\* C6 witness: a worker failed, another one returned a non-zero partial
\* count, and the dispatch ended raising.
C6_Witness ==
    /\ pc = "raised"
    /\ \E k \in DOMAIN status : status[k] = "failed"
    /\ \E k \in DOMAIN status : status[k] = "done" /\ results[k] > 0

\* C7 (Spec): with n < 1 the dispatch raises before any task is submitted or
\* any chunk counted; it never returns and never runs with another n.
C7_InvalidWorkerCount ==
    num_threads < 1 =>
        /\ pc \in {"idle", "partitioned", "raised"}
        /\ status = <<>> /\ started = <<>> /\ results = <<>>
        /\ chunks = <<>>
        /\ result = <<>>
        /\ (pc = "raised" => error \in {"ZeroDivisionError", "ValueError", "OSError"})

\* C7 witness: a negative n got past the partitioning and the pool refused it.
C7_Witness ==
    /\ num_threads < 0
    /\ pc = "raised"
    /\ error = "ValueError"

\* C8 (SpecFn): count_lines_in_chunk called with start > end or with
\* end > file size raises and returns no count.
C8_InvalidRangeRejected ==
    (pc = "counted" /\ (args[1] > args[2] \/ args[2] > Len(file))) =>
        /\ result = <<>>
        /\ error # ""

\* C9 (Spec): whatever the order in which workers start and finish, each
\* range's task ran exactly once, every task had completed when the sum was
\* taken, and the total is the sum of those n partial counts.
C9_ForkJoin ==
    /\ \A k \in DOMAIN started : started[k] <= 1
    /\ pc = "returned" =>
          /\ Len(status) = num_threads
          /\ \A k \in DOMAIN status : status[k] = "done" /\ started[k] = 1
          /\ results = map_chunks(file, chunks)
          /\ result = <<sum(results)>>
          /\ result = read_lines_threaded(file, num_threads).result

\* C9 witness: several workers, more than one non-zero partial count.
C9_Witness ==
    /\ pc = "returned"
    /\ num_threads >= 3
    /\ \E j, k \in DOMAIN results : j # k /\ results[j] > 0 /\ results[k] > 0

\* C10 (SpecFn): every chunk's partial count is the number of '\n' bytes in
\* its range or one less, exact for a chunk starting at offset 0; the total
\* never exceeds the file's '\n' count and is at most n - 1 below it.
C10_NeverOverCount ==
    pc = "returned" =>
        /\ \A k \in DOMAIN chunks :
              LET nl == NewlinesIn(file, chunks[k].start, chunks[k].end)
              IN  /\ results[k] \in {nl, nl - 1}
                  /\ (chunks[k].start = 0 => results[k] = nl)
        /\ result[1] <= count(file, NL)
        /\ result[1] >= count(file, NL) - (num_threads - 1)

\* C10 witness: a chunk that starts mid-line loses the line ending on its
\* last byte, and the total falls short.
C10_Witness ==
    /\ pc = "returned"
    /\ result[1] < count(file, NL)
    /\ \E k \in DOMAIN chunks :
          /\ chunks[k].start > 0
          /\ results[k] = NewlinesIn(file, chunks[k].start, chunks[k].end) - 1

====
